---------------------------- MODULE Spec2Model ----------------------------
(***************************************************************************)
(* A model of js-osch-base: the Account sequence tracker, the Asset        *)
(* canonical form, and the TransactionBuilder (constructor, addOperation,  *)
(* addMemo, setTimeout, build).                                            *)
(*                                                                         *)
(* JavaScript strings are sequences of one-character strings.  The         *)
(* arbitrary-precision numbers of bignumber.js are digit sequences, and    *)
(* the 64-bit integers of js-xdr are four 16-bit limbs, so that neither    *)
(* depends on the width of the model checker's own integers.               *)
(***************************************************************************)
EXTENDS Integers, Sequences, FiniteSets, TLC

(***************************************************************************)
(* Bounds of the model.                                                    *)
(***************************************************************************)
\* How many incrementSequenceNumber() calls an Account run makes.
MaxIncr == 4

\* How many operations a builder takes, and how many builds succeed.
MaxOps == 2

MaxBuilds == 2

(***************************************************************************)
(* Strings and decimal digits.                                             *)
(***************************************************************************)
DigitChars == <<"0", "1", "2", "3", "4", "5", "6", "7", "8", "9">>

IsDigit(ch) == \E i \in 1..10 : DigitChars[i] = ch

DigitOf(ch) == (CHOOSE i \in 1..10 : DigitChars[i] = ch) - 1

\* The string of a digit sequence, and the digit sequence of a digit string.
DigitsToStr(ds) == [i \in 1..Len(ds) |-> DigitChars[ds[i] + 1]]

StrToDigits(str) == [i \in 1..Len(str) |-> DigitOf(str[i])]

AllDigits(str) == Len(str) > 0 /\ \A i \in 1..Len(str) : IsDigit(str[i])

RECURSIVE StripLeadingZeros(_)
StripLeadingZeros(ds) ==
  IF Len(ds) > 1 /\ ds[1] = 0 THEN StripLeadingZeros(Tail(ds)) ELSE ds

RECURSIVE StripTrailingZeros(_)
StripTrailingZeros(ds) ==
  IF Len(ds) > 0 /\ ds[Len(ds)] = 0
  THEN StripTrailingZeros(SubSeq(ds, 1, Len(ds) - 1))
  ELSE ds

\* The decimal digits of a small natural number, most significant first.
RECURSIVE NatDigits(_)
NatDigits(n) == IF n < 10 THEN <<n>> ELSE Append(NatDigits(n \div 10), n % 10)

\* digit sequence + 1 and (for a non-zero one) - 1, by schoolbook carry.
RECURSIVE IncDigits(_)
IncDigits(ds) ==
  IF Len(ds) = 0 THEN <<1>>
  ELSE IF ds[Len(ds)] < 9
       THEN SubSeq(ds, 1, Len(ds) - 1) \o <<ds[Len(ds)] + 1>>
       ELSE IncDigits(SubSeq(ds, 1, Len(ds) - 1)) \o <<0>>

RECURSIVE DecDigits(_)
DecDigits(ds) ==
  IF ds[Len(ds)] > 0
  THEN SubSeq(ds, 1, Len(ds) - 1) \o <<ds[Len(ds)] - 1>>
  ELSE DecDigits(SubSeq(ds, 1, Len(ds) - 1)) \o <<9>>

(***************************************************************************)
(* bignumber.js: a BigNumber is NaN, or a sign and a coefficient (decimal  *)
(* digits, most significant first, no leading zeros).                      *)
(***************************************************************************)
BigNaN == [nan |-> TRUE, neg |-> FALSE, c |-> <<0>>]

BigIsZero(x) == ~x.nan /\ x.c = <<0>>

\* The index of the first "e" of a string, or 0.
ExpIndex(str) ==
  IF \E i \in 1..Len(str) : str[i] = "e"
  THEN CHOOSE i \in 1..Len(str) : str[i] = "e" /\ \A j \in 1..(i - 1) : str[j] # "e"
  ELSE 0

\* The value of a short digit sequence, as a number.
RECURSIVE DigitsValue(_)
DigitsValue(ds) ==
  IF Len(ds) = 0 THEN 0
  ELSE DigitsValue(SubSeq(ds, 1, Len(ds) - 1)) * 10 + ds[Len(ds)]

\* Whether str is d, or d.ddd, followed by e+NN with NN >= the number of
\* fraction digits: an integer in exponential notation.
IsExponential(str) ==
  LET k == ExpIndex(str)
  IN  /\ k >= 2
      /\ Len(str) >= k + 2
      /\ str[k + 1] = "+"
      /\ AllDigits(SubSeq(str, k + 2, Len(str)))
      /\ IsDigit(str[1])
      /\ \/ k = 2
         \/ /\ k >= 4
            /\ str[2] = "."
            /\ AllDigits(SubSeq(str, 3, k - 1))
            /\ DigitsValue(StrToDigits(SubSeq(str, k + 2, Len(str)))) >= k - 3

\* The coefficient of an integer in exponential notation.
ExponentialDigits(str) ==
  LET k    == ExpIndex(str)
      e    == DigitsValue(StrToDigits(SubSeq(str, k + 2, Len(str))))
      frac == IF k = 2 THEN <<>> ELSE StrToDigits(SubSeq(str, 3, k - 1))
  IN  <<DigitOf(str[1])>> \o frac \o [i \in 1..(e - Len(frac)) |-> 0]

\* new BigNumber(str): an optional "-", then decimal digits or an integer in
\* exponential notation; anything else is NaN.
BigNumberNew(str) ==
  LET neg  == Len(str) > 0 /\ str[1] = "-"
      body == IF neg THEN Tail(str) ELSE str
  IN  IF AllDigits(body)
      THEN [nan |-> FALSE, neg |-> neg, c |-> StripLeadingZeros(StrToDigits(body))]
      ELSE IF IsExponential(body)
      THEN [nan |-> FALSE, neg |-> neg,
            c |-> StripLeadingZeros(ExponentialDigits(body))]
      ELSE BigNaN

\* x.add(1)
BigAddOne(x) ==
  IF x.nan THEN BigNaN
  ELSE IF x.neg /\ ~BigIsZero(x)
       THEN LET m == StripLeadingZeros(DecDigits(x.c))
            IN  [nan |-> FALSE, neg |-> m # <<0>>, c |-> m]
       ELSE [nan |-> FALSE, neg |-> FALSE, c |-> IncDigits(x.c)]

\* The exponent from which toString() switches to exponential notation.
TO_EXP_POS == 21

\* x.toString(): normal notation below the exponent TO_EXP_POS, and
\* exponential notation ("1e+21", "1.5e+21") from it on.
BigToString(x) ==
  IF x.nan THEN <<"N", "a", "N">>
  ELSE IF BigIsZero(x) THEN <<"0">>
  ELSE LET e    == Len(x.c) - 1
           sign == IF x.neg THEN <<"-">> ELSE <<>>
           coef == StripTrailingZeros(x.c)
       IN  IF e >= TO_EXP_POS
           THEN sign \o <<DigitChars[coef[1] + 1]>>
                \o (IF Len(coef) > 1
                    THEN <<".">> \o DigitsToStr(Tail(coef))
                    ELSE <<>>)
                \o <<"e", "+">> \o DigitsToStr(NatDigits(e))
           ELSE sign \o DigitsToStr(x.c)

(***************************************************************************)
(* Identities: StrKey.isValidEd25519PublicKey, and the codec between an   *)
(* identity string and its raw key.                                        *)
(***************************************************************************)
ValidIds == {"GA", "GB"}

Ids == ValidIds \cup {"bad"}

IsValidEd25519PublicKey(id) == id \in ValidIds

(***************************************************************************)
(* Account                                                                 *)
(***************************************************************************)
NoAccount == [exists |-> FALSE, accountId |-> "", sequence |-> BigNaN]

\* A sequence argument that is a number and not a string.
NumberArgument == <<"number", "7">>

isString(sequence) == Len(sequence) = 0 \/ sequence[1] # "number"

\* What the constructor throws for (accountId, sequence), or "ok": 'accountId
\* is invalid', then 'sequence must be of type string' (the only test of the
\* sequence, outcome "InvalidSequenceFormat"), and then whatever
\* new BigNumber(sequence) throws: with its ERRORS setting on, bignumber.js
\* throws on a string that is not a number, and with it off it returns NaN.
AccountError(accountId, sequence, errors) ==
  IF ~IsValidEd25519PublicKey(accountId) THEN "InvalidIdentity"
  ELSE IF ~isString(sequence) THEN "InvalidSequenceFormat"
  ELSE IF errors /\ BigNumberNew(sequence).nan THEN "BigNumberError"
  ELSE "ok"

AccountNew(accountId, sequence) ==
  [exists |-> TRUE, accountId |-> accountId, sequence |-> BigNumberNew(sequence)]

sequenceNumber(acc) == BigToString(acc.sequence)

incrementSequenceNumber(acc) == [acc EXCEPT !.sequence = BigAddOne(acc.sequence)]


(***************************************************************************)
(* js-xdr Hyper (xdr.SequenceNumber): a signed 64-bit integer, here four   *)
(* 16-bit limbs, least significant first, in two's complement.             *)
(***************************************************************************)
LimbBase == 2^16

HyperZero == <<0, 0, 0, 0>>

\* (h * 10 + d) mod 2^64
HyperMulAdd(h, d) ==
  LET t1 == h[1] * 10 + d
      t2 == h[2] * 10 + (t1 \div LimbBase)
      t3 == h[3] * 10 + (t2 \div LimbBase)
      t4 == h[4] * 10 + (t3 \div LimbBase)
  IN  <<t1 % LimbBase, t2 % LimbBase, t3 % LimbBase, t4 % LimbBase>>

\* (-h) mod 2^64
HyperNeg(h) ==
  LET n1 == (LimbBase - 1 - h[1]) + 1
      n2 == (LimbBase - 1 - h[2]) + (n1 \div LimbBase)
      n3 == (LimbBase - 1 - h[3]) + (n2 \div LimbBase)
      n4 == (LimbBase - 1 - h[4]) + (n3 \div LimbBase)
  IN  <<n1 % LimbBase, n2 % LimbBase, n3 % LimbBase, n4 % LimbBase>>

HyperIsNegative(h) == h[4] >= LimbBase \div 2

\* Long.fromString on decimal digits: the digits are folded into the 64-bit
\* value, every step wrapping modulo 2^64.
RECURSIVE HyperOfDigits(_)
HyperOfDigits(ds) ==
  IF Len(ds) = 0 THEN HyperZero
  ELSE HyperMulAdd(HyperOfDigits(SubSeq(ds, 1, Len(ds) - 1)), ds[Len(ds)])

\* The regular expression /^-?\d+$/ of Hyper.fromString.
IsHyperString(str) ==
  LET body == IF Len(str) > 0 /\ str[1] = "-" THEN Tail(str) ELSE str
  IN  AllDigits(body)

\* Hyper.fromString(str), for a string the regular expression accepts.
HyperFromString(str) ==
  IF str[1] = "-"
  THEN HyperNeg(HyperOfDigits(StrToDigits(Tail(str))))
  ELSE HyperOfDigits(StrToDigits(str))

\* Quotient and remainder of an unsigned 64-bit value by 10.
HyperDivMod10(h) ==
  LET c4 == h[4]
      c3 == (c4 % 10) * LimbBase + h[3]
      c2 == (c3 % 10) * LimbBase + h[2]
      c1 == (c2 % 10) * LimbBase + h[1]
  IN  [q |-> <<c1 \div 10, c2 \div 10, c3 \div 10, c4 \div 10>>, r |-> c1 % 10]

RECURSIVE UnsignedDigits(_)
UnsignedDigits(h) ==
  LET qr == HyperDivMod10(h)
  IN  IF qr.q = HyperZero THEN <<qr.r>>
      ELSE Append(UnsignedDigits(qr.q), qr.r)

\* Hyper.prototype.toString(): the signed decimal string.
HyperToString(h) ==
  IF HyperIsNegative(h)
  THEN <<"-">> \o DigitsToStr(UnsignedDigits(HyperNeg(h)))
  ELSE DigitsToStr(UnsignedDigits(h))

(***************************************************************************)
(* Asset: codes are strings; an issuer is undefined, null or a string.     *)
(***************************************************************************)
UpperLetters == <<"A", "B", "C", "D", "E", "L", "M", "S", "U", "X">>

LowerLetters == <<"a", "b", "c", "d", "e", "l", "m", "s", "u", "x">>

IsAlnum(ch) ==
  \/ IsDigit(ch)
  \/ \E i \in 1..Len(UpperLetters) : ch = UpperLetters[i] \/ ch = LowerLetters[i]

ToLowerChar(ch) ==
  IF \E i \in 1..Len(UpperLetters) : ch = UpperLetters[i]
  THEN LowerLetters[CHOOSE i \in 1..Len(UpperLetters) : ch = UpperLetters[i]]
  ELSE ch

\* String(code).toLowerCase()
ToLowerCase(str) == [i \in 1..Len(str) |-> ToLowerChar(str[i])]

\* The null byte that pads a code slot.
NUL == "\\0"

\* lodash padEnd(str, n, '\0') and trimEnd(str, '\0')
PadEnd(str, n) == str \o [i \in 1..(n - Len(str)) |-> NUL]

RECURSIVE TrimEnd(_)
TrimEnd(str) ==
  IF Len(str) > 0 /\ str[Len(str)] = NUL
  THEN TrimEnd(SubSeq(str, 1, Len(str) - 1))
  ELSE str

Undefined == "<undefined>"

Null == "<null>"

\* !issuer
Falsy(v) == v \in {Undefined, Null, ""}

\* Keypair.fromPublicKey(id).xdrAccountId().ed25519(): the raw key of an
\* identity string, and StrKey.encodeEd25519PublicKey, its inverse.
RawKey(id) == <<"ed25519", id>>

EncodeEd25519PublicKey(raw) == raw[2]

NativeTicker == <<"x", "l", "m">>

\* /^[a-zA-Z0-9]{1,12}$/.test(code)
CodeIsValid(code) ==
  /\ Len(code) >= 1
  /\ Len(code) <= 12
  /\ \A i \in 1..Len(code) : IsAlnum(code[i])

\* A variant of AssetError without the test for a missing issuer.
AssetError_NoIssuerTest(code, issuer) ==
  IF ~CodeIsValid(code) THEN "InvalidAssetCode"
  ELSE IF ~Falsy(issuer) /\ ~IsValidEd25519PublicKey(issuer) THEN "InvalidIssuer"
  ELSE "ok"

\* What the Asset constructor throws for (code, issuer), or "ok".
AssetError(code, issuer) ==
  IF ~CodeIsValid(code) THEN "InvalidAssetCode"
  ELSE IF ToLowerCase(code) # NativeTicker /\ Falsy(issuer) THEN "MissingIssuer"
  ELSE IF ~Falsy(issuer) /\ ~IsValidEd25519PublicKey(issuer) THEN "InvalidIssuer"
  ELSE "ok"

NoAsset == [exists |-> FALSE, code |-> <<>>, issuer |-> Undefined]

AssetNew(code, issuer) == [exists |-> TRUE, code |-> code, issuer |-> issuer]

\* Asset.native(): new Asset('XLM'), the issuer argument left out.
AssetNative == AssetNew(<<"X", "L", "M">>, Undefined)

isNative(a) == Falsy(a.issuer)

NoXdr == [type |-> "none", assetCode |-> <<>>, issuer |-> <<>>]

\* asset.toXDRObject()
toXDRObject(a) ==
  IF isNative(a)
  THEN [type |-> "assetTypeNative", assetCode |-> <<>>, issuer |-> <<>>]
  ELSE [type      |-> IF Len(a.code) <= 4 THEN "assetTypeCreditAlphanum4"
                      ELSE "assetTypeCreditAlphanum12",
        assetCode |-> PadEnd(a.code, IF Len(a.code) <= 4 THEN 4 ELSE 12),
        issuer    |-> RawKey(a.issuer)]

\* What Asset.fromOperation(x) throws, or "ok".
FromOperationError(x) ==
  IF x.type = "assetTypeNative" THEN "ok"
  ELSE IF x.type \in {"assetTypeCreditAlphanum4", "assetTypeCreditAlphanum12"}
       THEN AssetError(TrimEnd(x.assetCode), EncodeEd25519PublicKey(x.issuer))
       ELSE "InvalidAssetType"

\* Asset.fromOperation(x)
fromOperation(x) ==
  IF x.type = "assetTypeNative" THEN AssetNative
  ELSE AssetNew(TrimEnd(x.assetCode), EncodeEd25519PublicKey(x.issuer))

getAssetType(a) ==
  IF isNative(a) THEN "native"
  ELSE IF Len(a.code) >= 1 /\ Len(a.code) <= 4 THEN "credit_alphanum4"
  ELSE IF Len(a.code) >= 5 /\ Len(a.code) <= 12 THEN "credit_alphanum12"
  ELSE "null"

\* a.equals(b)
equals(a, b) == a.code = b.code /\ a.issuer = b.issuer

(***************************************************************************)
(* JavaScript values of a time bound.  A number is held in thousandths     *)
(* (field m), so that Date.getTime() / 1000 keeps its fraction:            *)
(*   undefined;  a number m / 1000;  the decimal string of m / 1000;       *)
(*   a Date of m milliseconds;  an UnsignedHyper of value m / 1000.        *)
(***************************************************************************)
JsUndefined == [t |-> "undefined", m |-> 0]

JsNumber(n) == [t |-> "number", m |-> n * 1000]

JsString(n) == [t |-> "string", m |-> n * 1000]

JsDate(ms) == [t |-> "date", m |-> ms]

\* v > 0: undefined converts to NaN, everything else to its number.
GreaterThanZero(v) == v.t # "undefined" /\ v.m > 0

\* v === 0: no conversion, only the number 0.
StrictlyZero(v) == v.t = "number" /\ v.m = 0

\* isValidDate(v)
isValidDate(v) == v.t = "date"

\* What UnsignedHyper.fromString(v.toString()) throws, or "ok": undefined has
\* no toString, and the string must match /^\d+$/.
UnsignedHyperError(v) ==
  IF v.t = "undefined" THEN "TypeError"
  ELSE IF v.m < 0 \/ v.m % 1000 # 0 THEN "InvalidHyperString"
  ELSE "ok"

UnsignedHyperFromString(v) == [t |-> "uhyper", m |-> v.m]

(***************************************************************************)
(* TransactionBuilder                                                      *)
(***************************************************************************)
BASE_FEE == 100

TimeoutInfinite == 0

\* this.timebounds: null, or an object with minTime and maxTime.
NullTimebounds == [isNull |-> TRUE, minTime |-> JsUndefined, maxTime |-> JsUndefined]

Timebounds(min, max) == [isNull |-> FALSE, minTime |-> min, maxTime |-> max]

NoFee == [given |-> FALSE, v |-> 0]

FeeOf(n) == [given |-> TRUE, v |-> n]

MemoNone == "none"

NoBuilder ==
  [exists |-> FALSE, baseFee |-> 0, operations |-> <<>>, memo |-> MemoNone,
   timebounds |-> NullTimebounds, timeoutSet |-> FALSE,
   optsTimebounds |-> NullTimebounds, optsFee |-> NoFee, added |-> 0,
   hadZero |-> FALSE, hadPositive |-> FALSE]

\* new TransactionBuilder(sourceAccount, opts).  The fields from
\* optsTimebounds on are history: the timebounds and the fee of the options,
\* the number of addOperation calls, and whether setTimeout(0) and
\* setTimeout(t > 0) have succeeded on the builder.
TransactionBuilderNew(opts) ==
  [exists         |-> TRUE,
   baseFee        |-> IF opts.fee.given THEN opts.fee.v ELSE BASE_FEE,
   operations     |-> <<>>,
   memo           |-> opts.memo,
   timebounds     |-> opts.timebounds,
   timeoutSet     |-> FALSE,
   optsTimebounds |-> opts.timebounds,
   optsFee        |-> opts.fee,
   added          |-> 0,
   hadZero        |-> FALSE,
   hadPositive    |-> FALSE]

addOperation(bd, operation) ==
  [bd EXCEPT !.operations = Append(bd.operations, operation),
             !.added = bd.added + 1]

addMemo(bd, memo) == [bd EXCEPT !.memo = memo]

\* this.timebounds != null && this.timebounds.maxTime > 0
MaxTimeIsSet(tb) == ~tb.isNull /\ GreaterThanZero(tb.maxTime)

\* Variants of SetTimeoutError: the negative test first; no conflict test.
SetTimeoutError_NegativeFirst(tb, timeout) ==
  IF timeout < 0 THEN "NegativeTimeout"
  ELSE IF MaxTimeIsSet(tb) THEN "TimeBoundsConflict"
  ELSE "ok"

SetTimeoutError_NoConflict(tb, timeout) ==
  IF timeout < 0 THEN "NegativeTimeout" ELSE "ok"

\* What setTimeout(timeout) throws on a builder with timebounds tb, or "ok".
SetTimeoutError(tb, timeout) ==
  IF MaxTimeIsSet(tb) THEN "TimeBoundsConflict"
  ELSE IF timeout < 0 THEN "NegativeTimeout"
  ELSE "ok"

\* A variant of SetTimeoutBounds that leaves the timebounds alone.
SetTimeoutBounds_Untouched(tb, timeout, nowMs) == tb

\* Variants of SetTimeoutBounds: a maxTime for every timeout >= 0; the
\* wall-clock time rounded up to whole seconds.
SetTimeoutBounds_ZeroSetsMaxTime(tb, timeout, nowMs) ==
  Timebounds(IF tb.isNull THEN JsNumber(0) ELSE tb.minTime,
             JsNumber((nowMs \div 1000) + timeout))

SetTimeoutBounds_RoundsUp(tb, timeout, nowMs) ==
  IF timeout > 0
  THEN Timebounds(IF tb.isNull THEN JsNumber(0) ELSE tb.minTime,
                  JsNumber(((nowMs + 999) \div 1000) + timeout))
  ELSE tb

\* The timebounds a successful setTimeout(timeout) leaves, called at the
\* wall-clock time nowMs (milliseconds).
SetTimeoutBounds(tb, timeout, nowMs) ==
  IF timeout > 0
  THEN LET timeoutTimestamp == (nowMs \div 1000) + timeout
       IN  Timebounds(IF tb.isNull THEN JsNumber(0) ELSE tb.minTime,
                      JsNumber(timeoutTimestamp))
  ELSE tb

setTimeout(bd, timeout, nowMs) ==
  [bd EXCEPT !.timeoutSet  = TRUE,
             !.timebounds  = SetTimeoutBounds(bd.timebounds, timeout, nowMs),
             !.hadZero     = bd.hadZero \/ timeout = 0,
             !.hadPositive = bd.hadPositive \/ timeout > 0]

\* A variant of SetTimeoutBuilder that sets the flag before the tests.
SetTimeoutBuilder_FlagFirst(bd, timeout, nowMs) ==
  IF SetTimeoutError(bd.timebounds, timeout) = "ok"
  THEN setTimeout(bd, timeout, nowMs)
  ELSE [bd EXCEPT !.timeoutSet = TRUE]

\* The builder after setTimeout(timeout), whether it threw or not: both
\* tests come before the first assignment.
SetTimeoutBuilder(bd, timeout, nowMs) ==
  IF SetTimeoutError(bd.timebounds, timeout) = "ok"
  THEN setTimeout(bd, timeout, nowMs)
  ELSE bd

\* The test build() starts with.
MissingTimeBounds(bd) ==
  /\ bd.timebounds.isNull \/ StrictlyZero(bd.timebounds.maxTime)
  /\ ~bd.timeoutSet

\* new BigNumber(this.source.sequenceNumber()).add(1).toString()
NextSequenceString(acc) ==
  BigToString(BigAddOne(BigNumberNew(sequenceNumber(acc))))

\* A variant of BuildFee that charges at least one base fee.
BuildFee_Minimum(bd) ==
  IF Len(bd.operations) = 0 THEN bd.baseFee ELSE bd.baseFee * Len(bd.operations)

\* this.baseFee * this.operations.length
BuildFee(bd) == bd.baseFee * Len(bd.operations)

\* A Date bound becomes its time in seconds.
DateToSeconds(v) == IF isValidDate(v) THEN [t |-> "number", m |-> v.m] ELSE v

\* this.timebounds, after the lines of build() that rewrite it in place have
\* run as far as they get: both Date bounds become seconds, then minTime and
\* then maxTime become an UnsignedHyper, and the first that throws stops it.
BuildTimebounds(tb) ==
  IF tb.isNull THEN tb
  ELSE LET dated == Timebounds(DateToSeconds(tb.minTime), DateToSeconds(tb.maxTime))
       IN  IF UnsignedHyperError(dated.minTime) # "ok" THEN dated
           ELSE LET min == [dated EXCEPT !.minTime = UnsignedHyperFromString(dated.minTime)]
                IN  IF UnsignedHyperError(min.maxTime) # "ok" THEN min
                    ELSE [min EXCEPT !.maxTime = UnsignedHyperFromString(min.maxTime)]

\* What the time-bounds lines of build() throw, or "ok".
BuildTimeboundsError(tb) ==
  IF tb.isNull THEN "ok"
  ELSE LET min == DateToSeconds(tb.minTime)
           max == DateToSeconds(tb.maxTime)
       IN  IF UnsignedHyperError(min) # "ok" THEN UnsignedHyperError(min)
           ELSE UnsignedHyperError(max)

\* What build() throws, or "ok", in the order of its statements.
BuildError(bd, acc) ==
  IF MissingTimeBounds(bd) THEN "MissingTimeBounds"
  ELSE IF ~IsHyperString(NextSequenceString(acc)) THEN "InvalidHyperString"
  ELSE BuildTimeboundsError(bd.timebounds)

\* this.memo ? this.memo.toXDRObject() : null
MemoToXDR(memo) == <<"xdr.Memo", memo>>

NoTransaction ==
  [built |-> FALSE, sourceAccount |-> <<>>, fee |-> 0, seqNum |-> HyperZero,
   memo |-> <<>>, timeBounds |-> NullTimebounds, operations |-> <<>>]

\* The Transaction a successful build() returns.
BuildTransaction(bd, acc) ==
  [built         |-> TRUE,
   sourceAccount |-> RawKey(acc.accountId),
   fee           |-> BuildFee(bd),
   seqNum        |-> HyperFromString(NextSequenceString(acc)),
   memo          |-> MemoToXDR(bd.memo),
   timeBounds    |-> BuildTimebounds(bd.timebounds),
   operations    |-> bd.operations]

\* The builder after build(): a build that throws before the time-bounds
\* lines leaves it as it was.
BuildBuilder(bd, acc) ==
  IF MissingTimeBounds(bd) \/ ~IsHyperString(NextSequenceString(acc)) THEN bd
  ELSE [bd EXCEPT !.timebounds = BuildTimebounds(bd.timebounds)]

\* A variant of BuildAccount that increments before build() can throw.
BuildAccount_IncrementsFirst(bd, acc) == incrementSequenceNumber(acc)

\* The source account after build(): incremented once the Transaction exists.
BuildAccount(bd, acc) ==
  IF BuildError(bd, acc) = "ok" THEN incrementSequenceNumber(acc) ELSE acc

(***************************************************************************)
(* State.                                                                  *)
(***************************************************************************)
VARIABLES
  account,   \* the Account the callers share
  seqArg,    \* the sequence string the Account was constructed from
  incrs,     \* increments of the Account since its construction
  last,      \* the last call: its operation, target, outcome and result
  asset,     \* the Asset under construction and encoding
  assetXdr,  \* the canonical form toXDRObject() returned for it
  decoded,   \* the Asset fromOperation() decoded from that form
  builders,  \* the TransactionBuilders, all on the one Account
  caller,    \* the timebounds object a caller passed in, and its Dates
  net,       \* Network: the current selection, and a Network a caller made
  inflight,  \* the build() each builder is in the middle of, if any
  held       \* a Transaction that build() returned and a caller kept

vars ==
  <<account, seqArg, incrs, last, asset, assetXdr, decoded, builders, caller,
    net, inflight, held>>

assetVars == <<asset, assetXdr, decoded>>

accountVars == <<account, seqArg, incrs>>

\* What the Account, the Asset and the builders' calls leave alone.
otherVars == <<caller, net, inflight, held>>

nonAssetVars == <<account, seqArg, incrs, builders, otherVars>>

NoAssets == asset = NoAsset /\ assetXdr = NoXdr /\ decoded = NoAsset

Builders == {"b1", "b2"}

NoBuilders == builders = [b \in Builders |-> NoBuilder]

\* A caller's timebounds object and the Dates it made, by their time values
\* in milliseconds: a bound that is a Date holds a reference to one of them.
NoCaller ==
  [timebounds |-> NullTimebounds, dates |-> <<0, 0>>, given |-> NullTimebounds]

\* let current = null, and a Network object or none.
NullNetwork == [isNull |-> TRUE, passphrase |-> ""]

\* No selection and no Network yet.  selected is history: the networks the
\* use calls were given, in call order.
NoNet == [current |-> NullNetwork, made |-> NullNetwork, selected |-> <<>>]

\* No build() has started: a build() that has read the account's sequence
\* holds the Account as it read it, and a finished one its Transaction.
NoFlight ==
  [b \in Builders |-> [pc |-> "idle", read |-> NoAccount, tx |-> NoTransaction]]

\* No Transaction kept.  A kept one is tx, returned by builder b; shared
\* tells whether its operation list is the builder's array itself.
NoHeld == [exists |-> FALSE, b |-> "", shared |-> FALSE, tx |-> NoTransaction]

NoOthers ==
  caller = NoCaller /\ net = NoNet /\ inflight = NoFlight /\ held = NoHeld

\* A call of op on builder b (or on no builder) and what it threw, or "ok".
\* For setTimeout: its argument, the wall-clock time, the builders and the
\* account's sequenceNumber() as they were before the call, and whether the builder had a maxTime > 0,
\* a successful setTimeout(0) and a successful setTimeout(t > 0) before the
\* call.  For build: the sequenceNumber() it read and the Transaction it
\* returned.  For the Account constructor: its arguments.
Call(op, b, outcome) ==
  [op |-> op, b |-> b, outcome |-> outcome, timeout |-> 0, nowMs |-> 0,
   accountId |-> "", sequence |-> <<>>,
   maxWasSet |-> FALSE, hadZero |-> FALSE, hadPositive |-> FALSE,
   seqBefore |-> <<>>, tx |-> NoTransaction,
   before |-> [c \in Builders |-> NoBuilder]]

NoCall == Call("none", "", "ok")

(***************************************************************************)
(* The Account on its own: construction and incrementSequenceNumber().     *)
(***************************************************************************)
\* Sequence strings at the boundaries of the number formats: small values,
\* 2^53 - 1, 2^53, 2^63 - 1, 2^64 - 1, 10^21 - 3 and 10^21.
SeqStrings ==
  { <<"0">>, <<"1">>, <<"9">>, <<"9", "9">>, <<"1", "0", "0">>,
    DigitsToStr(<<9,0,0,7,1,9,9,2,5,4,7,4,0,9,9,1>>),
    DigitsToStr(<<9,0,0,7,1,9,9,2,5,4,7,4,0,9,9,2>>),
    DigitsToStr(<<9,2,2,3,3,7,2,0,3,6,8,5,4,7,7,5,8,0,7>>),
    DigitsToStr(<<1,8,4,4,6,7,4,4,0,7,3,7,0,9,5,5,1,6,1,5>>),
    DigitsToStr(<<9,9,9,9,9,9,9,9,9,9,9,9,9,9,9,9,9,9,9,9,7>>),
    DigitsToStr(<<1,0,0,0,0,0,0,0,0,0,0,0,0,0,0,0,0,0,0,0,0,0>>) }

\* Sequence arguments that are no non-negative integer: letters, a negative
\* number, the empty string, and a number in place of a string.
MalformedSequences ==
  { <<"a", "b", "c">>, <<"-", "5">>, <<>>, NumberArgument }

InitAccount ==
  /\ account = NoAccount
  /\ seqArg = <<>>
  /\ incrs = 0
  /\ last = NoCall
  /\ NoAssets
  /\ NoBuilders
  /\ NoOthers

\* new Account(accountId, sequence)
NewAccount(accountId, sequence, errors) ==
  LET err == AccountError(accountId, sequence, errors)
  IN  /\ last' = [Call("Account", "", err) EXCEPT
                    !.accountId = accountId, !.sequence = sequence]
      /\ IF err = "ok"
         THEN /\ account' = AccountNew(accountId, sequence)
              /\ seqArg' = sequence
              /\ incrs' = 0
         ELSE UNCHANGED <<account, seqArg, incrs>>
      /\ UNCHANGED <<assetVars, otherVars, builders>>

\* account.incrementSequenceNumber()
IncrementSequenceNumber ==
  /\ account.exists
  /\ incrs < MaxIncr
  /\ account' = incrementSequenceNumber(account)
  /\ incrs' = incrs + 1
  /\ last' = Call("incrementSequenceNumber", "", "ok")
  /\ UNCHANGED <<seqArg, assetVars, otherVars, builders>>

NextAccount ==
  \/ \E id \in Ids, s \in SeqStrings \cup MalformedSequences,
          errors \in BOOLEAN : NewAccount(id, s, errors)
  \/ IncrementSequenceNumber

SpecAccount == InitAccount /\ [][NextAccount]_vars

(***************************************************************************)
(* The Asset on its own: construction, toXDRObject() and fromOperation().  *)
(***************************************************************************)
Codes ==
  { <<"X", "L", "M">>, <<"x", "l", "m">>, <<"X", "l", "m">>,
    <<"U", "S", "D">>, <<"A">>, <<"A", "B", "C", "D">>,
    <<"A", "B", "C", "D", "E">>, <<"u", "s", "d", "1">>,
    <<"A", "B", "C", "D", "E", "A", "B", "C", "D", "E", "1", "2">>,
    <<"A", "B", "C", "D", "E", "A", "B", "C", "D", "E", "1", "2", "3">>,
    <<>>, <<"U", "S", "$">> }

Issuers == {Undefined, Null, ""} \cup Ids

\* Canonical forms with a discriminant fromOperation does not know.
UnknownXdr == [type |-> "assetTypeUnknown", assetCode |-> <<>>, issuer |-> <<>>]

InitAsset ==
  /\ account = NoAccount
  /\ seqArg = <<>>
  /\ incrs = 0
  /\ last = NoCall
  /\ NoAssets
  /\ NoBuilders
  /\ NoOthers

\* new Asset(code, issuer)
NewAsset(code, issuer) ==
  LET err == AssetError(code, issuer)
  IN  /\ last' = Call("Asset", "", err)
      /\ IF err = "ok"
         THEN /\ asset' = AssetNew(code, issuer)
              /\ assetXdr' = NoXdr
              /\ decoded' = NoAsset
         ELSE UNCHANGED assetVars
      /\ UNCHANGED nonAssetVars

\* Asset.native()
Native ==
  /\ last' = Call("native", "", "ok")
  /\ asset' = AssetNative
  /\ assetXdr' = NoXdr
  /\ decoded' = NoAsset
  /\ UNCHANGED nonAssetVars

\* asset.toXDRObject()
ToXDRObject ==
  /\ asset.exists
  /\ last' = Call("toXDRObject", "", "ok")
  /\ assetXdr' = toXDRObject(asset)
  /\ decoded' = NoAsset
  /\ UNCHANGED <<asset, nonAssetVars>>

\* Asset.fromOperation(x), for the form of the asset or an unknown one
FromOperation(x) ==
  LET err == FromOperationError(x)
  IN  /\ x.type # "none"
      /\ last' = Call("fromOperation", "", err)
      /\ decoded' = IF err = "ok" THEN fromOperation(x) ELSE decoded
      /\ UNCHANGED <<asset, assetXdr, nonAssetVars>>

NextAsset ==
  \/ \E code \in Codes, issuer \in Issuers : NewAsset(code, issuer)
  \/ Native
  \/ ToXDRObject
  \/ \E x \in {assetXdr, UnknownXdr} : FromOperation(x)

SpecAsset == InitAsset /\ [][NextAsset]_vars

(***************************************************************************)
(* TransactionBuilders on one shared Account.                              *)
(***************************************************************************)
\* Sequence numbers of the source account: a small one, 2^63 - 2 (the next
\* but one no longer fits the signed 64-bit seqNum), and 10^21 - 1.
BuilderSeqs ==
  { <<"7">>,
    DigitsToStr(<<9,2,2,3,3,7,2,0,3,6,8,5,4,7,7,5,8,0,6>>),
    DigitsToStr(<<9,9,9,9,9,9,9,9,9,9,9,9,9,9,9,9,9,9,9,9,9>>) }

\* The timebounds option: left out, or an object whose bounds are numbers,
\* a string, Dates, or left out in part.
TimeboundsOpts ==
  { NullTimebounds,
    Timebounds(JsNumber(0), JsNumber(0)),
    Timebounds(JsNumber(5), JsUndefined),
    Timebounds(JsNumber(0), JsNumber(7)),
    Timebounds(JsNumber(0), JsString(0)),
    Timebounds(JsDate(1000), JsDate(9000)) }

FeeOpts == {NoFee, FeeOf(3)}

Memos == {MemoNone, "text"}

Operations == {"payment"}

Timeouts == {-1, TimeoutInfinite, 2}

\* Wall-clock times, in milliseconds.
NowMs == {1999}

Opts == [fee : FeeOpts, timebounds : TimeboundsOpts, memo : Memos]

\* The first builder takes every option; the second, which is there to share
\* the Account, takes the default fee and memo, with or without a maxTime.
SecondOpts ==
  [fee : {NoFee},
   timebounds : {NullTimebounds, Timebounds(JsNumber(0), JsNumber(7))},
   memo : {MemoNone}]

OptsOf(b) == IF b = "b1" THEN Opts ELSE SecondOpts

Init ==
  /\ \E s \in BuilderSeqs :
       /\ account = AccountNew("GA", s)
       /\ seqArg = s
  /\ incrs = 0
  /\ last = NoCall
  /\ NoAssets
  /\ NoBuilders
  /\ NoOthers

\* new TransactionBuilder(sourceAccount, opts), with or without the account
Construct(b, hasSource, opts) ==
  /\ ~builders[b].exists
  /\ IF hasSource
     THEN /\ builders' = [builders EXCEPT ![b] = TransactionBuilderNew(opts)]
          /\ last' = Call("TransactionBuilder", b, "ok")
     ELSE /\ last' = Call("TransactionBuilder", b, "MissingSourceAccount")
          /\ UNCHANGED builders
  /\ UNCHANGED <<accountVars, assetVars, otherVars>>

AddOperation(b, operation) ==
  /\ builders[b].exists
  /\ Len(builders[b].operations) < MaxOps
  /\ builders' = [builders EXCEPT ![b] = addOperation(builders[b], operation)]
  /\ last' = Call("addOperation", b, "ok")
  /\ UNCHANGED <<accountVars, assetVars, otherVars>>

AddMemo(b, memo) ==
  /\ builders[b].exists
  /\ builders' = [builders EXCEPT ![b] = addMemo(builders[b], memo)]
  /\ last' = Call("addMemo", b, "ok")
  /\ UNCHANGED <<accountVars, assetVars, otherVars>>

SetTimeout(b, timeout, nowMs) ==
  LET bd  == builders[b]
      err == SetTimeoutError(bd.timebounds, timeout)
  IN  /\ bd.exists
      /\ last' = [Call("setTimeout", b, err) EXCEPT
                    !.timeout = timeout,
                    !.nowMs = nowMs,
                    !.before = builders,
                    !.seqBefore = sequenceNumber(account),
                    !.maxWasSet = MaxTimeIsSet(bd.timebounds),
                    !.hadZero = bd.hadZero,
                    !.hadPositive = bd.hadPositive]
      /\ builders' = [builders EXCEPT ![b] = SetTimeoutBuilder(bd, timeout, nowMs)]
      /\ UNCHANGED <<accountVars, assetVars, otherVars>>

Build(b) ==
  LET bd  == builders[b]
      err == BuildError(bd, account)
  IN  /\ bd.exists
      /\ err # "ok" \/ incrs < MaxBuilds
      /\ last' = [Call("build", b, err) EXCEPT
                    !.seqBefore = sequenceNumber(account),
                    !.tx = IF err = "ok" THEN BuildTransaction(bd, account)
                           ELSE NoTransaction]
      /\ builders' = [builders EXCEPT ![b] = BuildBuilder(bd, account)]
      /\ account' = BuildAccount(bd, account)
      /\ incrs' = IF err = "ok" THEN incrs + 1 ELSE incrs
      /\ UNCHANGED <<seqArg, assetVars, otherVars>>

\* Operations and memos are added to the first builder; both builders take
\* setTimeout and build.
Next ==
  \/ \E b \in Builders, hasSource \in BOOLEAN :
       \E opts \in OptsOf(b) : Construct(b, hasSource, opts)
  \/ \E operation \in Operations : AddOperation("b1", operation)
  \/ \E memo \in Memos : AddMemo("b1", memo)
  \/ \E b \in Builders, timeout \in Timeouts, nowMs \in NowMs :
       SetTimeout(b, timeout, nowMs)
  \/ \E b \in Builders : Build(b)

Spec == Init /\ [][Next]_vars

(***************************************************************************)
(* Properties of build() and setTimeout(), under Spec.                     *)
(***************************************************************************)
BuildSucceeded == last.op = "build" /\ last.outcome = "ok"

\* Whether x < y, for non-negative BigNumbers.
RECURSIVE DigitsLess(_, _)
DigitsLess(xs, ys) ==
  IF Len(xs) # Len(ys) THEN Len(xs) < Len(ys)
  ELSE IF Len(xs) = 0 THEN FALSE
  ELSE IF xs[1] # ys[1] THEN xs[1] < ys[1]
  ELSE DigitsLess(Tail(xs), Tail(ys))

\* C1: a successful build() returns a transaction whose seqNum is the
\* account's sequence number read at the start of the build plus 1, and
\* afterwards account.sequenceNumber() equals the returned seqNum.
C1_SeqNumIsSequencePlusOne ==
  (BuildSucceeded /\ AllDigits(last.seqBefore))
    => LET next == DigitsToStr(IncDigits(StrToDigits(last.seqBefore)))
       IN  /\ HyperToString(last.tx.seqNum) = next
           /\ sequenceNumber(account) = HyperToString(last.tx.seqNum)

\* The base fee f the builder was constructed with.
GivenFee(bd) == IF bd.optsFee.given THEN bd.optsFee.v ELSE BASE_FEE

\* C2: a successful build() on a builder with base fee f and k addOperation
\* calls returns a transaction whose fee is f * k, without a clamp.
C2_FeeIsBaseFeeTimesCount ==
  BuildSucceeded
    => last.tx.fee = GivenFee(builders[last.b]) * builders[last.b].added

\* A build() of no operations was accepted, with fee 0 for a base fee of 3.
C2_ZeroOperationsBuilt ==
  /\ BuildSucceeded
  /\ builders[last.b].added = 0
  /\ GivenFee(builders[last.b]) = 3
  /\ last.tx.fee = 0

\* C3: build() fails with MissingTimeBounds whenever setTimeout has never
\* succeeded on the builder and its timebounds is absent or has no
\* maxTime > 0.
C3_BuildWithoutBoundsIsMissingTimeBounds ==
  LET bd == builders[last.b]
  IN  (last.op = "build" /\ ~bd.hadZero /\ ~bd.hadPositive
         /\ ~MaxTimeIsSet(bd.optsTimebounds))
        => last.outcome = "MissingTimeBounds"

\* C4, as claimed: a setTimeout call after a successful setTimeout on the
\* same builder fails with the conflict error.
C4_SecondSetTimeoutConflicts ==
  (last.op = "setTimeout" /\ (last.hadZero \/ last.hadPositive))
    => last.outcome = "TimeBoundsConflict"

\* C4, amended: a setTimeout call after a successful setTimeout(t) with
\* t > 0 on the same builder fails with the conflict error, whatever its
\* argument; after successful setTimeout(0) calls only, it is treated as a
\* first call (NegativeTimeout for a negative argument, success otherwise).
C4_SetTimeoutAfterPositiveConflicts ==
  last.op = "setTimeout"
    => /\ last.hadPositive => last.outcome = "TimeBoundsConflict"
       /\ (last.hadZero /\ ~last.hadPositive)
            => last.outcome = IF last.timeout < 0 THEN "NegativeTimeout" ELSE "ok"

\* A setTimeout(0) after a successful setTimeout(t > 0) failed with the conflict.
C4_ConflictAfterPositive ==
  /\ last.op = "setTimeout"
  /\ last.hadPositive
  /\ last.timeout = 0
  /\ last.outcome = "TimeBoundsConflict"

\* C5: on a builder constructed with a timebounds whose maxTime > 0, every
\* setTimeout call fails with TimeBoundsConflict, and the maxTime keeps the
\* value given at construction.
C5_ExplicitMaxTimeIsKept ==
  \A b \in Builders :
    (builders[b].exists /\ MaxTimeIsSet(builders[b].optsTimebounds))
      => /\ builders[b].timebounds.maxTime.m = builders[b].optsTimebounds.maxTime.m
         /\ ~builders[b].timeoutSet
         /\ (last.op = "setTimeout" /\ last.b = b)
              => last.outcome = "TimeBoundsConflict"

\* setTimeout(2) on a builder constructed with maxTime 7 failed with the conflict.
C5_ConflictOnExplicitMaxTime ==
  /\ last.op = "setTimeout"
  /\ last.timeout = 2
  /\ builders[last.b].optsTimebounds = Timebounds(JsNumber(0), JsNumber(7))
  /\ last.outcome = "TimeBoundsConflict"

\* C6, as claimed: setTimeout(seconds) with seconds < 0 fails with
\* NegativeTimeout in every builder state.
C6_NegativeTimeoutAlways ==
  (last.op = "setTimeout" /\ last.timeout < 0)
    => last.outcome = "NegativeTimeout"

\* C6, amended: setTimeout(seconds) with seconds < 0 fails in every builder
\* state: with NegativeTimeout when the builder has no maxTime > 0, and
\* with TimeBoundsConflict when it has one.
C6_NegativeTimeoutUnlessMaxTime ==
  (last.op = "setTimeout" /\ last.timeout < 0)
    => last.outcome = IF last.maxWasSet THEN "TimeBoundsConflict"
                      ELSE "NegativeTimeout"

\* setTimeout(-1) failed with NegativeTimeout on a builder that had taken
\* setTimeout(0).
C6_NegativeRejected ==
  /\ last.op = "setTimeout"
  /\ last.timeout < 0
  /\ last.hadZero
  /\ last.outcome = "NegativeTimeout"

\* C7: the account's sequence number never decreases and changes only at a
\* successful build(), by exactly 1; any other call, and a build() that
\* fails, leaves it unchanged.
C7_SequenceChangesOnlyAtBuild ==
  [][IF last'.op = "build" /\ last'.outcome = "ok"
     THEN /\ account'.sequence = BigAddOne(account.sequence)
          /\ DigitsLess(account.sequence.c, account'.sequence.c)
          /\ BigToString(account.sequence) = last'.seqBefore
     ELSE account' = account]_vars

\* Both builders exist, two builds have succeeded on the shared account, and
\* the last call was a build() that failed with MissingTimeBounds.
C7_FailedBuildAfterBuilds ==
  /\ \A b \in Builders : builders[b].exists
  /\ incrs = 2
  /\ account.sequence = BigAddOne(BigAddOne(BigNumberNew(seqArg)))
  /\ last.op = "build"
  /\ last.outcome = "MissingTimeBounds"

(***************************************************************************)
(* Properties of the Asset, under SpecAsset.                               *)
(***************************************************************************)
\* C8: decoding the canonical form of an accepted asset gives an asset that
\* equals() the original.
C8_RoundTripEquals ==
  (asset.exists /\ decoded.exists /\ assetXdr = toXDRObject(asset))
    => equals(decoded, asset)

IsNativeTicker(code) == ToLowerCase(code) = NativeTicker

\* C9, as claimed: an accepted asset has no issuer if and only if its code
\* is case-insensitively the native ticker.
C9_IssuerAbsentIffNativeTicker ==
  \A a \in {asset, decoded} :
    a.exists => (Falsy(a.issuer) <=> IsNativeTicker(a.code))

\* C9, amended: an accepted asset without an issuer has the native ticker
\* (in any letter case) as its code, and an issuer that is present is a
\* valid identity; the native ticker with a valid issuer is accepted too.
C9_IssuerAbsentOnlyForNativeTicker ==
  \A a \in {asset, decoded} :
    a.exists => /\ Falsy(a.issuer) => IsNativeTicker(a.code)
                /\ ~Falsy(a.issuer) => IsValidEd25519PublicKey(a.issuer)

\* The constructor accepted the code "xlm" without an issuer.
C9_LowerCaseNativeAccepted ==
  /\ last.op = "Asset"
  /\ last.outcome = "ok"
  /\ asset.code = <<"x", "l", "m">>
  /\ asset.issuer = Undefined

(***************************************************************************)
(* Properties of the Account, under SpecAccount.                           *)
(***************************************************************************)
\* The decimal string of s + n, by n schoolbook increments of the digits of s.
RECURSIVE PlusDigits(_, _)
PlusDigits(ds, n) == IF n = 0 THEN ds ELSE PlusDigits(IncDigits(ds), n - 1)

\* C10: for a valid identity and a non-negative integer string s,
\* Account(id, s).sequenceNumber() is s, and after n increments it is the
\* decimal string of s + n exactly.
C10_SequenceIsExactDecimal ==
  (account.exists /\ Len(seqArg) > 0 /\ AllDigits(seqArg))
    => sequenceNumber(account)
         = DigitsToStr(PlusDigits(StripLeadingZeros(StrToDigits(seqArg)), incrs))

(***************************************************************************)
(* Properties of the Account constructor, under SpecAccount.               *)
(***************************************************************************)
\* Whether str is a well-formed non-negative integer string.
WellFormedSequence(str) == isString(str) /\ Len(str) > 0 /\ AllDigits(str)

\* C11: constructing an Account fails with InvalidIdentity when the identity
\* is invalid, and with InvalidSequenceFormat when the sequence argument is
\* not a well-formed non-negative integer string; no Account with a
\* non-integer or negative sequence exists.
C11_MalformedSequenceIsRejected ==
  /\ last.op = "Account"
       => /\ ~IsValidEd25519PublicKey(last.accountId)
               => last.outcome = "InvalidIdentity"
          /\ (IsValidEd25519PublicKey(last.accountId)
                 /\ ~WellFormedSequence(last.sequence))
               => last.outcome = "InvalidSequenceFormat"
  /\ account.exists => ~account.sequence.nan /\ ~account.sequence.neg


(***************************************************************************)
(* A builder and the caller who passed it a timebounds object.  The        *)
(* constructor keeps clone(opts.timebounds), lodash's shallow clone: a new *)
(* object with the same property values, so a Date held as a bound is the  *)
(* caller's Date itself.                                                   *)
(***************************************************************************)
\* A bound that is the caller's r-th Date.
JsDateRef(r) == [t |-> "dateref", m |-> r]

\* The value of a bound at the moment it is read.
Resolve(v, dates) == IF v.t = "dateref" THEN JsDate(dates[v.m]) ELSE v

ResolveTimebounds(tb, dates) ==
  IF tb.isNull THEN tb
  ELSE Timebounds(Resolve(tb.minTime, dates), Resolve(tb.maxTime, dates))

\* clone(opts.timebounds)
clone(tb) ==
  IF tb.isNull THEN NullTimebounds
  ELSE [isNull |-> FALSE, minTime |-> tb.minTime, maxTime |-> tb.maxTime]

\* The time values the caller's two Dates are created with, and set to.
DateTimes == <<1000, 9000>>

SetTimes == {1000, 5000}

\* The timebounds objects of the caller: numbers, Dates, or both.
CallerTimebounds ==
  { Timebounds(JsNumber(0), JsNumber(7)),
    Timebounds(JsNumber(0), JsNumber(0)),
    Timebounds(JsDateRef(1), JsDateRef(2)),
    Timebounds(JsDateRef(1), JsNumber(0)) }

\* The values the caller assigns to the fields of its object afterwards.
AssignedBounds == {JsNumber(3)}

InitCopy ==
  /\ account = AccountNew("GA", <<"7">>)
  /\ seqArg = <<"7">>
  /\ incrs = 0
  /\ last = NoCall
  /\ NoAssets
  /\ NoBuilders
  /\ NoOthers

\* The builder's state with every bound read.
Resolved(bd) ==
  [bd EXCEPT !.timebounds = ResolveTimebounds(bd.timebounds, caller.dates)]

\* tb = {minTime: .., maxTime: ..}; new TransactionBuilder(account,
\* {timebounds: tb})
ConstructCopy(tb) ==
  /\ ~builders["b1"].exists
  /\ caller' = [timebounds |-> tb, dates |-> DateTimes,
                given |-> ResolveTimebounds(tb, DateTimes)]
  /\ builders' = [builders EXCEPT !["b1"] =
                    TransactionBuilderNew([fee |-> NoFee,
                                           timebounds |-> clone(tb),
                                           memo |-> MemoNone])]
  /\ last' = Call("TransactionBuilder", "b1", "ok")
  /\ UNCHANGED <<accountVars, assetVars, net, inflight, held>>

\* tb.minTime = v, or tb.maxTime = v, on the caller's object
CallerAssigns(isMin, v) ==
  /\ builders["b1"].exists
  /\ caller' = [caller EXCEPT !.timebounds =
                  IF isMin THEN [@ EXCEPT !.minTime = v]
                  ELSE [@ EXCEPT !.maxTime = v]]
  /\ last' = Call("assign", "", "ok")
  /\ UNCHANGED <<accountVars, assetVars, builders, net, inflight, held>>

\* date.setTime(ms), on the r-th of the caller's Dates
CallerSetTime(r, ms) ==
  /\ builders["b1"].exists
  /\ caller' = [caller EXCEPT !.dates[r] = ms]
  /\ last' = Call("setTime", "", "ok")
  /\ UNCHANGED <<accountVars, assetVars, builders, net, inflight, held>>

SetTimeoutCopy(timeout, nowMs) ==
  LET bd  == builders["b1"]
      err == SetTimeoutError(Resolved(bd).timebounds, timeout)
  IN  /\ bd.exists
      /\ last' = [Call("setTimeout", "b1", err) EXCEPT
                    !.timeout = timeout,
                    !.nowMs = nowMs,
                    !.maxWasSet = MaxTimeIsSet(Resolved(bd).timebounds),
                    !.hadZero = bd.hadZero,
                    !.hadPositive = bd.hadPositive]
      /\ builders' = IF err = "ok"
                     THEN [builders EXCEPT !["b1"] = setTimeout(bd, timeout, nowMs)]
                     ELSE builders
      /\ UNCHANGED <<accountVars, assetVars, caller, net, inflight, held>>

BuildCopy ==
  LET bd  == Resolved(builders["b1"])
      err == BuildError(bd, account)
  IN  /\ bd.exists
      /\ err # "ok" \/ incrs < MaxBuilds
      /\ last' = [Call("build", "b1", err) EXCEPT
                    !.seqBefore = sequenceNumber(account),
                    !.tx = IF err = "ok" THEN BuildTransaction(bd, account)
                           ELSE NoTransaction]
      /\ builders' = [builders EXCEPT !["b1"] =
                        IF BuildBuilder(bd, account) = bd THEN builders["b1"]
                        ELSE BuildBuilder(bd, account)]
      /\ account' = BuildAccount(bd, account)
      /\ incrs' = IF err = "ok" THEN incrs + 1 ELSE incrs
      /\ UNCHANGED <<seqArg, assetVars, caller, net, inflight, held>>

NextCopy ==
  \/ \E tb \in CallerTimebounds : ConstructCopy(tb)
  \/ \E isMin \in BOOLEAN, v \in AssignedBounds : CallerAssigns(isMin, v)
  \/ \E r \in 1..Len(DateTimes), ms \in SetTimes : CallerSetTime(r, ms)
  \/ \E timeout \in Timeouts, nowMs \in NowMs : SetTimeoutCopy(timeout, nowMs)
  \/ BuildCopy

SpecCopy == InitCopy /\ [][NextCopy]_vars

\* The time values of timebounds, as build() writes them into a transaction.
TimeValues(tb) == BuildTimebounds(tb)

\* C12: whatever the caller does afterwards to the timebounds object it
\* passed, or to a Date held in it, the builder's timebounds and the time
\* bounds of a transaction built later are those of the object as it was
\* passed (but for a maxTime that setTimeout has set).
C12_BuilderKeepsGivenTimebounds ==
  LET bd    == builders["b1"]
      given == TimeValues(caller.given)
      Kept(tb) ==
        /\ ~tb.isNull
        /\ tb.minTime = given.minTime
        /\ ~bd.hadPositive => tb.maxTime = given.maxTime
  IN  /\ bd.exists => Kept(TimeValues(Resolved(bd).timebounds))
      /\ (bd.exists /\ BuildSucceeded) => Kept(last.tx.timeBounds)


(***************************************************************************)
(* Network: the process-wide current selection.                            *)
(***************************************************************************)
MaxUses == 3

Networks == [PUBLIC |-> "osch public network", TESTNET |-> "osch test network"]

Passphrases == {Networks.PUBLIC, Networks.TESTNET, "custom network"}

\* new Network(networkPassphrase)
NetworkNew(networkPassphrase) == [isNull |-> FALSE, passphrase |-> networkPassphrase]

\* A variant of use that keeps a selection once made.
use_KeepsFirst(current, network) == IF current.isNull THEN network ELSE current

\* Network.use(network): the current selection it leaves.
use(current, network) == network

InitNetwork ==
  /\ account = NoAccount
  /\ seqArg = <<>>
  /\ incrs = 0
  /\ last = NoCall
  /\ NoAssets
  /\ NoBuilders
  /\ NoOthers

\* The Network state after Network.use(network).
Using(network) ==
  [net EXCEPT !.current = use(net.current, network),
              !.selected = Append(net.selected, network)]

\* Network.usePublicNetwork(): this.use(new Network(Networks.PUBLIC))
UsePublicNetwork ==
  /\ Len(net.selected) < MaxUses
  /\ net' = Using(NetworkNew(Networks.PUBLIC))
  /\ last' = Call("usePublicNetwork", "", "ok")
  /\ UNCHANGED <<accountVars, assetVars, builders, caller, inflight, held>>

\* Network.useTestNetwork(): this.use(new Network(Networks.TESTNET))
UseTestNetwork ==
  /\ Len(net.selected) < MaxUses
  /\ net' = Using(NetworkNew(Networks.TESTNET))
  /\ last' = Call("useTestNetwork", "", "ok")
  /\ UNCHANGED <<accountVars, assetVars, builders, caller, inflight, held>>

\* Network.use(n), for the Network n the caller made
Use ==
  /\ ~net.made.isNull
  /\ Len(net.selected) < MaxUses
  /\ net' = Using(net.made)
  /\ last' = Call("use", "", "ok")
  /\ UNCHANGED <<accountVars, assetVars, builders, caller, inflight, held>>

\* n = new Network(networkPassphrase)
NewNetwork(networkPassphrase) ==
  /\ net' = [net EXCEPT !.made = NetworkNew(networkPassphrase)]
  /\ last' = Call("Network", "", "ok")
  /\ UNCHANGED <<accountVars, assetVars, builders, caller, inflight, held>>

\* n.networkPassphrase() or n.networkId(), on the Network the caller made or
\* on Network.current(): both only read n.
ReadNetwork(op, ofCurrent) ==
  LET n == IF ofCurrent THEN net.current ELSE net.made
  IN  /\ last' = Call(op, "", IF n.isNull THEN "TypeError" ELSE "ok")
      /\ UNCHANGED <<accountVars, assetVars, builders, otherVars>>

NextNetwork ==
  \/ UsePublicNetwork
  \/ UseTestNetwork
  \/ Use
  \/ \E p \in Passphrases : NewNetwork(p)
  \/ \E op \in {"networkPassphrase", "networkId"}, ofCurrent \in BOOLEAN :
       ReadNetwork(op, ofCurrent)

SpecNetwork == InitNetwork /\ [][NextNetwork]_vars

\* C13: Network.current() is null until the first use, usePublicNetwork or
\* useTestNetwork call, and after any sequence of them it is the network the
\* most recent one selected; constructing a Network and reading its
\* passphrase or id leave it alone.
C13_CurrentIsLatestSelection ==
  net.current = IF net.selected = <<>> THEN NullNetwork
                ELSE net.selected[Len(net.selected)]

\* A selection has been overwritten by a different one, and a Network has
\* been constructed and read since without becoming current.
C13_SelectionOverwritten ==
  /\ Len(net.selected) >= 2
  /\ net.selected[1] # net.current
  /\ net.current = NetworkNew(Networks.TESTNET)
  /\ net.made = NetworkNew("custom network")
  /\ last.op = "networkId"


(***************************************************************************)
(* Effects of setTimeout(), under Spec.                                    *)
(***************************************************************************)
\* C14: a setTimeout call that fails leaves the builders (timebounds,
\* timeoutSet, memo, operations) and the account's sequence as they were
\* before the call, so a build() that failed with MissingTimeBounds before
\* it still does.
C14_FailedSetTimeoutChangesNothing ==
  (last.op = "setTimeout" /\ last.outcome # "ok")
    => /\ builders = last.before
       /\ sequenceNumber(account) = last.seqBefore
       /\ MissingTimeBounds(last.before[last.b])
            => BuildError(builders[last.b], account) = "MissingTimeBounds"

\* A setTimeout(-1) has failed on a builder whose build() fails with
\* MissingTimeBounds.
C14_BuildStillMissingTimeBounds ==
  /\ last.op = "setTimeout"
  /\ last.outcome = "NegativeTimeout"
  /\ ~builders[last.b].timeoutSet
  /\ BuildError(builders[last.b], account) = "MissingTimeBounds"

\* C15: a successful setTimeout(0) sets timeoutSet and leaves timebounds as
\* it was; a transaction built on a builder that only had setTimeout(0)
\* carries time bounds only if the builder was constructed with them.
C15_ZeroTimeoutKeepsTimebounds ==
  /\ (last.op = "setTimeout" /\ last.outcome = "ok"
        /\ last.timeout = TimeoutInfinite)
       => /\ builders[last.b].timeoutSet
          /\ builders[last.b].timebounds = last.before[last.b].timebounds
  /\ (BuildSucceeded /\ ~builders[last.b].hadPositive)
       => (last.tx.timeBounds.isNull
             <=> builders[last.b].optsTimebounds.isNull)

\* After setTimeout(0) on a builder constructed without timebounds, a
\* transaction without time bounds has been built.
C15_BuiltWithoutTimeBounds ==
  /\ BuildSucceeded
  /\ builders[last.b].hadZero
  /\ builders[last.b].timeoutSet
  /\ builders[last.b].optsTimebounds.isNull
  /\ last.tx.timeBounds.isNull

\* C16: a successful setTimeout(seconds) with seconds > 0 sets maxTime to
\* now + seconds, now being the wall clock in whole seconds, keeps minTime
\* (0 when there were no timebounds), sets timeoutSet and changes nothing
\* else of the builder.
C16_PositiveTimeoutSetsMaxTime ==
  (last.op = "setTimeout" /\ last.outcome = "ok" /\ last.timeout > 0)
    => LET old == last.before[last.b]
           new == builders[last.b]
       IN  /\ new.timeoutSet
           /\ ~new.timebounds.isNull
           /\ new.timebounds.maxTime
                = JsNumber((last.nowMs \div 1000) + last.timeout)
           /\ new.timebounds.minTime
                = IF old.timebounds.isNull THEN JsNumber(0)
                  ELSE old.timebounds.minTime
           /\ new.operations = old.operations
           /\ new.memo = old.memo
           /\ new.baseFee = old.baseFee

\* setTimeout(2) at 1.999 s has succeeded on a builder whose minTime was 5:
\* minTime is still 5 and maxTime is 1 + 2.
C16_MinTimeKept ==
  /\ last.op = "setTimeout"
  /\ last.outcome = "ok"
  /\ last.timeout = 2
  /\ last.nowMs = 1999
  /\ last.before[last.b].timebounds.minTime = JsNumber(5)
  /\ builders[last.b].timebounds = Timebounds(JsNumber(5), JsNumber(3))


(***************************************************************************)
(* Repeated and serialised builds, under Spec.                             *)
(***************************************************************************)
\* C17: a build() that directly follows a successful build() on the same
\* builder succeeds too, increments the account by 1 again, and returns a
\* transaction with the same operations, fee, memo and time bounds and a
\* seqNum 1 higher.
C17_RebuildIsNextSequence ==
  [][(/\ last.op = "build" /\ last.outcome = "ok"
      /\ last'.op = "build" /\ last'.b = last.b
      /\ AllDigits(HyperToString(last.tx.seqNum)))
       => /\ last'.outcome = "ok"
          /\ account' = incrementSequenceNumber(account)
          /\ last'.tx.operations = last.tx.operations
          /\ last'.tx.fee = last.tx.fee
          /\ last'.tx.memo = last.tx.memo
          /\ last'.tx.timeBounds = last.tx.timeBounds
          /\ HyperToString(last'.tx.seqNum)
               = DigitsToStr(IncDigits(StrToDigits(HyperToString(last.tx.seqNum))))]_vars

\* C19: with builds run one after the other, the n-th successful build on an
\* Account constructed with sequence s, from whichever builder, returns the
\* seqNum s + n, and leaves the account at s + n.
C19_SerialBuildsCountUp ==
  BuildSucceeded
    => LET expected == DigitsToStr(PlusDigits(StrToDigits(seqArg), incrs))
       IN  /\ HyperToString(last.tx.seqNum) = expected
           /\ sequenceNumber(account) = expected


(***************************************************************************)
(* Two builders on one Account whose build() calls interleave.  build()    *)
(* reads the account's sequence where it computes sequenceNumber, and      *)
(* increments the account in its last statement but one; here the two are  *)
(* separate steps, and another build() may run between them.               *)
(***************************************************************************)
\* Sequence numbers of the shared account: small ones and 2^63 - 2.
ConcurrentSeqs ==
  { <<"7">>, <<"9", "9">>,
    DigitsToStr(<<9,2,2,3,3,7,2,0,3,6,8,5,4,7,7,5,8,0,6>>) }

InitConcurrent ==
  /\ \E s \in ConcurrentSeqs :
       /\ account = AccountNew("GA", s)
       /\ seqArg = s
  /\ incrs = 0
  /\ last = NoCall
  /\ NoAssets
  /\ NoBuilders
  /\ NoOthers

\* A variant of FinishAccount that writes the sequence build() read, plus 1.
FinishAccount_FromRead(bd, read, acc) == BuildAccount(bd, read)

\* The account after the last statements of a build() that read the account
\* as read: this.source.incrementSequenceNumber() increments the account as
\* it is by then.
FinishAccount(bd, read, acc) ==
  IF BuildError(bd, read) = "ok" THEN incrementSequenceNumber(acc) ELSE acc

\* build(), as far as its read of this.source.sequenceNumber()
StartBuild(b) ==
  LET bd == builders[b]
  IN  /\ bd.exists
      /\ inflight[b].pc = "idle"
      /\ IF MissingTimeBounds(bd)
         THEN /\ last' = Call("build", b, "MissingTimeBounds")
              /\ UNCHANGED inflight
         ELSE /\ inflight' = [inflight EXCEPT ![b] =
                                [pc |-> "read", read |-> account, tx |-> NoTransaction]]
              /\ UNCHANGED last
      /\ UNCHANGED <<accountVars, assetVars, builders, caller, net, held>>

\* build(), from there to its return
FinishBuild(b) ==
  LET bd   == builders[b]
      read == inflight[b].read
      err  == BuildError(bd, read)
      tx   == IF err = "ok" THEN BuildTransaction(bd, read) ELSE NoTransaction
  IN  /\ inflight[b].pc = "read"
      /\ last' = [Call("build", b, err) EXCEPT
                    !.seqBefore = sequenceNumber(read), !.tx = tx]
      /\ builders' = [builders EXCEPT ![b] = BuildBuilder(bd, read)]
      /\ account' = FinishAccount(bd, read, account)
      /\ incrs' = IF err = "ok" THEN incrs + 1 ELSE incrs
      /\ inflight' = [inflight EXCEPT ![b] =
                        IF err = "ok"
                        THEN [pc |-> "done", read |-> read, tx |-> tx]
                        ELSE NoFlight[b]]
      /\ UNCHANGED <<seqArg, assetVars, caller, net, held>>

NextConcurrent ==
  \/ \E b \in Builders, hasSource \in BOOLEAN, opts \in SecondOpts :
       Construct(b, hasSource, opts)
  \/ \E b \in Builders : StartBuild(b)
  \/ \E b \in Builders : FinishBuild(b)

SpecConcurrent == InitConcurrent /\ [][NextConcurrent]_vars

BothBuilt == \A b \in Builders : inflight[b].pc = "done"

\* C18: when the build() calls of two builders on one Account interleave,
\* both increment the account, which ends at s + 2, and two builds that read
\* the same sequence return the same seqNum, computed from s: the value
\* s + 2 is then in the counter and in no transaction.
C18_StaleReadsShareSeqNum ==
  BothBuilt
    => LET f1 == inflight["b1"]
           f2 == inflight["b2"]
       IN  /\ sequenceNumber(account)
                = DigitsToStr(PlusDigits(StrToDigits(seqArg), 2))
           /\ f1.read = f2.read <=> f1.tx.seqNum = f2.tx.seqNum
           /\ f1.read = f2.read
                => /\ sequenceNumber(f1.read) = seqArg
                   /\ HyperToString(f1.tx.seqNum)
                        = DigitsToStr(IncDigits(StrToDigits(seqArg)))

\* Both builds have returned, with the same seqNum, and the account is two
\* further.
C18_SameSeqNumTwice ==
  /\ BothBuilt
  /\ inflight["b1"].tx.seqNum = inflight["b2"].tx.seqNum
  /\ sequenceNumber(account) = DigitsToStr(PlusDigits(StrToDigits(seqArg), 2))


(***************************************************************************)
(* A Transaction that build() returned, kept while the builder and the     *)
(* account are used further.  build() hands this.operations, the builder's *)
(* own array, to the envelope it passes to new Transaction(xenv).          *)
(***************************************************************************)
\* A variant in which the Transaction's operation list is that array.
TransactionSharesOperations_KeepsArray(tx) == TRUE

\* new Transaction(xenv): a Transaction is a projection of the builder state
\* at build time, so its operation list is its own and not the array.
TransactionSharesOperations(tx) == FALSE

\* The operation list of the kept Transaction, as it reads now.
HeldOperations ==
  IF held.shared THEN builders[held.b].operations ELSE held.tx.operations

\* build(), whose caller keeps the first Transaction returned
BuildHeld(b) ==
  LET bd  == builders[b]
      err == BuildError(bd, account)
      tx  == IF err = "ok" THEN BuildTransaction(bd, account) ELSE NoTransaction
  IN  /\ bd.exists
      /\ err # "ok" \/ incrs < MaxBuilds
      /\ last' = [Call("build", b, err) EXCEPT
                    !.seqBefore = sequenceNumber(account), !.tx = tx]
      /\ builders' = [builders EXCEPT ![b] = BuildBuilder(bd, account)]
      /\ account' = BuildAccount(bd, account)
      /\ incrs' = IF err = "ok" THEN incrs + 1 ELSE incrs
      /\ held' = IF err = "ok" /\ ~held.exists
                 THEN [exists |-> TRUE, b |-> b,
                       shared |-> TransactionSharesOperations(tx), tx |-> tx]
                 ELSE held
      /\ UNCHANGED <<seqArg, assetVars, caller, net, inflight>>

NextSnapshot ==
  \/ \E hasSource \in BOOLEAN, opts \in SecondOpts :
       Construct("b1", hasSource, opts)
  \/ \E operation \in Operations : AddOperation("b1", operation)
  \/ \E memo \in Memos : AddMemo("b1", memo)
  \/ \E timeout \in Timeouts, nowMs \in NowMs : SetTimeout("b1", timeout, nowMs)
  \/ BuildHeld("b1")
  \/ IncrementSequenceNumber

SpecSnapshot == Init /\ [][NextSnapshot]_vars

=============================================================================
